---- MODULE Spec2Model ----
(***************************************************************************)
(* Batch job orchestrator of the CloudPrepper MCP tools:                   *)
(*   - cloudprepper_generate_batch   (questionBatchGenerator.ts)           *)
(*   - cloudprepper_check_batch_status (batchStatusChecker, part_003)      *)
(* Each tool call is a process that walks through its HTTP requests; the   *)
(* job backend answers every request nondeterministically, the wall clock  *)
(* and the questions directory are shared.                                 *)
(***************************************************************************)
EXTENDS Integers, Sequences, FiniteSets, TLC

\* ------------------------------------------------------------------ bounds
MaxPolls == 4
MaxTicks == 1

Procs == {1, 2}

\* ------------------------------------------------------- program constants
questionsPerCall == 10
maxRetries == 3
MinCount == 1
MaxCount == 50

\* Tool names
Tools == {"gen", "chk"}

\* Batch ids handed out by the backend / passed to the status checker.
BatchIds == {"batch1", "batch500"}

\* (pollInterval, maxWaitTime) pairs in seconds.
WaitConfigs == {<<5, 10>>, <<300, 500>>}

\* Requested question counts of the generator.
CountValues == {1, 11}

Formats == {"json", "sql"}

\* ------------------------------------------------------------ job statuses
NonTerminal == {"pending", "validating", "in_progress", "processing"}
SuccessTerminal == {"ended", "completed"}
FailureTerminal == {"expired", "cancelled", "failed", "error"}
Statuses == NonTerminal \cup SuccessTerminal \cup FailureTerminal

\* Position of a status in the job life cycle.
Rank(s) == IF s = "pending" THEN 0
           ELSE IF s = "validating" THEN 1
           ELSE IF s \in NonTerminal THEN 2
           ELSE 3

\* ------------------------------------------------------------------- items
\* A question as the backend returns it; domain "" stands for a missing field.
Item(i) == [id |-> i, domain |-> IF i % 2 = 0 THEN "" ELSE "Cloud Security"]

\* The questions the batch job of a batch id produces.
JobItems(b) == IF b = "batch1" THEN [i \in 1..3 |-> Item(i)]
               ELSE [i \in 1..1 |-> Item(10 + i)]

\* Questions produced by the j-th per-item generation call.
FreshItems(call, n) == [i \in 1..n |-> Item(100 * call + i)]

mapQuestionsToGenerated(questions) ==
    [i \in 1..Len(questions) |->
        [id |-> questions[i].id,
         domain |-> IF questions[i].domain = "" THEN "General"
                    ELSE questions[i].domain]]

\* ---------------------------------------------------------- error messages
\* An error is the kind of message, its variable part, and the substrings
\* (among those the code searches for) that the message text contains.
DigitsContain(n, d) == \E k \in 0..3 : (n \div (10 ^ k)) % 1000 = d /\ n >= 100

NumberHas(n) == (IF DigitsContain(n, 500) THEN {"500"} ELSE {})
                \cup (IF DigitsContain(n, 404) THEN {"404"} ELSE {})

IdHas(b) == IF b = "batch500" THEN {"500"} ELSE {}

StatusHas(s) == IF s \in {"failed", "expired", "error", "cancelled"} THEN {s} ELSE {}

\* Error texts a backend body or HTTP status line carries.
TextHas(t) == IF t \in {"Batch failed", "Batch processing failed"} THEN {"failed"}
              ELSE IF t = "Not Found" THEN {"Not Found"}
              ELSE {}

Err(kind, arg, has) == [kind |-> kind, arg |-> arg, has |-> has]

NoErr == Err("none", "", {})

\* `Batch status check failed: Batch status endpoint not found (404)`
ErrStatus404 == Err("StatusCheckFailed", "404",
                    {"Batch status check failed", "Batch status endpoint not found",
                     "failed", "404"})

\* `Batch status check failed: Batch status endpoint error (500)`
ErrStatus500 == Err("StatusCheckFailed", "500",
                    {"Batch status check failed", "Batch status endpoint error",
                     "failed", "error", "500"})

\* `Batch status check failed: ${errorMsg}`
ErrStatusOther(text) == Err("StatusCheckFailed", text,
                            {"Batch status check failed", "failed"} \cup TextHas(text))

\* `Batch processing failed: ${processingStatus}`
ErrJobFailed(s) == Err("JobFailed", s, {"failed"} \cup StatusHas(s))

\* `Batch processing timeout: exceeded ${maxWaitTime}s wait time`
ErrTimeout(maxWaitTime) ==
    Err("Timeout", ToString(maxWaitTime), {"timeout"} \cup NumberHas(maxWaitTime))

\* TypeError `fetch failed` raised by fetch when the endpoint is unreachable.
ErrFetch == Err("Transport", "fetch failed", {"failed"})

\* SyntaxError raised by response.json() on a malformed body.
ErrParse == Err("Parse", "Unexpected token", {})

Includes(e, needle) == needle \in e.has

\* ------------------------------------------------------------------- state
VARIABLES
    now,        \* wall clock, seconds
    ticks,      \* seconds the clock advanced outside of sleeps
    files,      \* questions directory: set of <<file name, content>>
    writes,     \* file names in the order they were written
    jobStatus,  \* backend: status of the job of each batch id
    healthy,    \* backend: TRUE when no endpoint ever misbehaves
    active,     \* the tool calls that may be started
    proc        \* per tool call: the locals of its handler

vars == <<now, ticks, files, writes, jobStatus, healthy, active, proc>>

NoArgs == [certification_type |-> "", count |-> 0, output_format |-> "json",
           pollInterval |-> 0, maxWaitTime |-> 0, batch_id |-> ""]

NoReqs == [submit |-> 0, status |-> 0, results |-> 0, alt |-> 0,
           resubmit |-> 0, perItem |-> 0]

\* No submission response has been parsed yet.
NoSubmitData == [parsed |-> FALSE, batch_id |-> "", questions |-> <<>>]

Idle == [pc |-> "idle", tool |-> "", args |-> NoArgs, batchId |-> "",
         status |-> "", startTime |-> 0, pollCount |-> 0,
         processingStatus |-> "", statusCheckFailed |-> FALSE,
         pollError |-> NoErr, altIdx |-> 0, retry |-> 0,
         allQuestions |-> <<>>, asked |-> <<>>, exact |-> TRUE,
         questions |-> <<>>, result |-> "none", error |-> NoErr,
         reqs |-> NoReqs, lastResp |-> "", lastSeen |-> "", failSeen |-> FALSE,
         statusAll500 |-> TRUE, resultsNotReady |-> TRUE, served |-> FALSE,
         submitData |-> NoSubmitData, resultsFailed |-> FALSE,
         statusAll404 |-> TRUE]

\* The handler throws e to its caller.
Fail(s, e) == [s EXCEPT !.pc = "done", !.result = "error", !.error = e]

\* A retrieval step obtained the item list; the handler goes on to save it.
Obtained(s, items) == [s EXCEPT !.pc = "save", !.questions = mapQuestionsToGenerated(items)]

\* The call has sent a request to an endpoint and heard the answer r: count
\* the request and remember what the status and results endpoints said.
Heard(s, endpoint, r) ==
    LET s1 == [s EXCEPT !.reqs[endpoint] = @ + 1] IN
    IF endpoint = "status"
    THEN [s1 EXCEPT !.lastResp = r.k,
                    !.lastSeen = IF r.k = "ok" THEN r.s ELSE @,
                    !.failSeen = @ \/ (r.k = "ok" /\ r.s \in FailureTerminal),
                    !.statusAll500 = @ /\ r.k = "h500",
                    !.statusAll404 = @ /\ r.k = "h404"]
    ELSE IF endpoint = "results"
    THEN [s1 EXCEPT !.resultsNotReady = @ /\ r.k = "h404",
                    !.served = @ \/ (r.k = "ok" /\ Len(r.q) > 0 /\ r.err = ""),
                    !.resultsFailed =
                        \/ @
                        \/ /\ s.pc \in {"results", "chkResults"}
                           /\ \/ r.k \in {"h400", "h404", "h500"}
                              \/ r.k = "ok" /\ r.succ /\ r.err # ""]
    ELSE IF endpoint = "submit" /\ r.k = "ok"
    THEN [s1 EXCEPT !.submitData = [parsed |-> TRUE, batch_id |-> r.id,
                                    questions |-> r.q]]
    ELSE s1

\* ----------------------------------------------------------------- backend
\* A response: what came back (k), the processing_status (s), the questions
\* (q), the success flag, the error text or statusText (err), the batch_id
\* of a submission response (id), and the status the job has by then (job).
Resp(k, st, q, succ, err, id, job) ==
    [k |-> k, s |-> st, q |-> q, succ |-> succ, err |-> err, id |-> id, job |-> job]

\* An answer that tells nothing about the job, which stays as it was.
Fault(k, err, b) == Resp(k, "", <<>>, FALSE, err, "", jobStatus[b])

\* The statuses the job may have reached by the time of a request: a job
\* only moves forward in its life cycle.
JobNow(b) == {st \in Statuses : st = jobStatus[b] \/ Rank(st) > Rank(jobStatus[b])}

\* The results endpoint serving the job's questions, if the job has ended.
Ready(b) == {Resp("ok", "", JobItems(b), TRUE, "", "", st) : st \in JobNow(b) \cap SuccessTerminal}

\* GET /api/questions/batch/{id}/status
StatusResps(b) ==
    {Resp("ok", st, <<>>, TRUE, "", "", st) : st \in JobNow(b)}
    \cup (IF healthy THEN {}
          ELSE {Fault(k, "", b) : k \in {"h404", "h500", "throw", "badjson"}}
               \cup {Fault("h503", "Service Unavailable", b)})

\* GET /api/questions/batch/{id}/results
ResultsResps(b) ==
    Ready(b)
    \cup {Fault("h404", "Not Found", b)}
    \cup (IF healthy THEN {}
          ELSE {Fault("h400", "Batch failed", b),
                Fault("h500", "Internal Server Error", b),
                Fault("throw", "", b),
                Fault("badjson", "", b),
                Resp("ok", "", <<>>, TRUE, "", "", jobStatus[b]),
                Resp("ok", "", <<>>, FALSE, "Batch failed", "", jobStatus[b]),
                Resp("ok", "", JobItems(b), TRUE, "Batch failed", "", jobStatus[b])})

\* GET on one of the guessed paths that are not the status or results path.
OtherPathResps(b) ==
    {Fault("h404", "Not Found", b)}
    \cup (IF healthy THEN {} ELSE {Fault("throw", "", b)} \cup Ready(b))

\* POST /api/questions/generateBatch: the body of an accepted submission
\* names a batch id, carries the questions, or both or neither.
SubmitResps ==
    {Resp("ok", st, <<>>, TRUE, "", b, IF st = "completed" THEN "completed" ELSE "pending") :
        st \in {"", "pending", "completed"}, b \in BatchIds}
    \cup {Resp("ok", "", JobItems(b), TRUE, "", "", "") : b \in BatchIds}
    \cup (IF healthy THEN {}
          ELSE {Resp("ok", "", JobItems("batch1"), TRUE, "", "batch1", "completed"),
                Resp("ok", "", <<>>, TRUE, "", "", ""),
                Resp("ok", "", <<>>, FALSE, "", "", ""),
                Resp("h500", "", <<>>, FALSE, "Internal Server Error", "", ""),
                Resp("throw", "", <<>>, FALSE, "", "", ""),
                Resp("badjson", "", <<>>, FALSE, "", "", "")})

\* GET/POST on the submission endpoint with the batch id attached.
RecheckResps(b) ==
    {Fault("h404", "Not Found", b),
     Fault("throw", "", b),
     Resp("ok", "", <<>>, TRUE, "", b, jobStatus[b])}
    \cup {Resp("ok", "completed", r.q, TRUE, "", b, r.job) : r \in Ready(b)}

\* POST /api/questions/generateQuestion asking for n questions; call is the
\* 1-based number of the request.
PerItemResps(call, n) ==
    LET want == IF n > 0 THEN n ELSE 0
        Ok(k) == Resp("ok", "", FreshItems(call, k), TRUE, "", "", "")
    IN {Ok(want)}
       \cup (IF healthy THEN {}
             ELSE {Ok(want + 1), Ok(IF want > 0 THEN want - 1 ELSE 0),
                   Resp("ok", "", <<>>, FALSE, "", "", ""),
                   Resp("h500", "", <<>>, FALSE, "Internal Server Error", "", ""),
                   Resp("throw", "", <<>>, FALSE, "", "", "")})

\* ------------------------------------------------------- pollBatchStatus
\* The try block of one loop iteration, given the status response r and the
\* seconds elapsed since startTime: return, throw or sleep.
PollTry(r, elapsed, maxWaitTime) ==
    IF r.k = "throw" THEN [act |-> "throw", err |-> ErrFetch]
    ELSE IF r.k = "h404" THEN [act |-> "throw", err |-> ErrStatus404]
    ELSE IF r.k = "h500" THEN [act |-> "throw", err |-> ErrStatus500]
    ELSE IF r.k # "ok" /\ r.k # "badjson" THEN [act |-> "throw", err |-> ErrStatusOther(r.err)]
    ELSE IF r.k = "badjson" THEN [act |-> "throw", err |-> ErrParse]
    ELSE IF r.s = "ended" \/ r.s = "completed" THEN [act |-> "return", err |-> NoErr]
    ELSE IF r.s = "expired" \/ r.s = "cancelled" \/ r.s = "failed"
         THEN [act |-> "throw", err |-> ErrJobFailed(r.s)]
    ELSE IF elapsed > maxWaitTime THEN [act |-> "throw", err |-> ErrTimeout(maxWaitTime)]
    ELSE [act |-> "sleep", err |-> NoErr]

\* A catch block that rethrows whatever it catches.
PollCatchRethrows(e) == [act |-> "throw", err |-> e]

\* The catch block: timeout and failure errors are rethrown, any other
\* error is logged and the loop sleeps and goes round again.
PollCatch(e) ==
    IF Includes(e, "timeout") THEN [act |-> "throw", err |-> e]
    ELSE IF Includes(e, "failed") THEN [act |-> "throw", err |-> e]
    ELSE [act |-> "sleep", err |-> NoErr]

PollIteration(r, elapsed, maxWaitTime) ==
    LET t == PollTry(r, elapsed, maxWaitTime) IN
    IF t.act = "throw" THEN PollCatch(t.err) ELSE t

\* ------------------------------------------- generateBatchQuestions (gen)
\* GenFallbackTrigger with only the tests that a 500 of the status endpoint
\* passes and a 404 does not.
GenFallbackTriggerOn500(e) ==
    \/ Includes(e, "500") \/ Includes(e, "Failed to retrieve")
    \/ Includes(e, "Batch status endpoint error")

\* The errors of pollBatchStatus that send the generator into the fallback
\* chain instead of failing the call.
GenFallbackTrigger(e) ==
    \/ Includes(e, "404") \/ Includes(e, "Not Found")
    \/ Includes(e, "500") \/ Includes(e, "Failed to retrieve")
    \/ Includes(e, "Batch status endpoint error")
    \/ Includes(e, "Batch status endpoint not found")
    \/ Includes(e, "Batch status check failed")

\* What the generator does once pollBatchStatus has returned or thrown:
\* <<new locals, seconds slept>>.
GenAfterPoll(s, res) ==
    IF res.act = "return" THEN <<[s EXCEPT !.pc = "results"], 0>>
    ELSE IF GenFallbackTrigger(res.err)
         THEN <<[s EXCEPT !.pc = "fbResults", !.pollError = res.err], s.args.pollInterval>>
    ELSE <<Fail([s EXCEPT !.pollError = res.err], res.err), 0>>

\* GenSubmitted with the batch id looked at before the questions.
GenSubmittedBatchIdFirst(s, r, t) ==
    IF r.k = "throw" THEN Fail(s, ErrFetch)
    ELSE IF r.k = "badjson" THEN Fail(s, ErrParse)
    ELSE IF r.k # "ok" THEN Fail(s, Err("SubmitFailed", r.k, {"failed"}))
    ELSE IF r.id # ""
         THEN IF r.s = "completed" \/ r.s = "ended" \/ r.s = "success"
              THEN [s EXCEPT !.pc = "directResults", !.batchId = r.id, !.status = r.s]
              ELSE [s EXCEPT !.pc = "poll", !.batchId = r.id, !.status = r.s,
                             !.startTime = t, !.pollCount = 0]
    ELSE IF Len(r.q) > 0 THEN Obtained(s, r.q)
    ELSE IF r.succ THEN Obtained(s, r.q)
    ELSE Fail(s, Err("MalformedResponse", "", {}))

\* The submission response is in: short-circuit, poll, or reject.
GenSubmitted(s, r, t) ==
    IF r.k = "throw" THEN Fail(s, ErrFetch)
    ELSE IF r.k = "badjson" THEN Fail(s, ErrParse)
    ELSE IF r.k # "ok" THEN Fail(s, Err("SubmitFailed", r.k, {"failed"}))
    ELSE IF Len(r.q) > 0 THEN Obtained(s, r.q)
    ELSE IF r.id # ""
         THEN IF r.s = "completed" \/ r.s = "ended" \/ r.s = "success"
              THEN [s EXCEPT !.pc = "directResults", !.batchId = r.id, !.status = r.s]
              ELSE [s EXCEPT !.pc = "poll", !.batchId = r.id, !.status = r.s,
                             !.startTime = t, !.pollCount = 0]
    ELSE IF r.succ THEN Obtained(s, r.q)
    ELSE Fail(s, Err("MalformedResponse", "", {}))

\* Results request made right after a submission that reported completion;
\* every failure here is swallowed and polling starts.
GenDirectResults(s, r, t) ==
    IF r.k = "ok" /\ Len(r.q) > 0 THEN Obtained(s, r.q)
    ELSE [s EXCEPT !.pc = "poll", !.startTime = t, !.pollCount = 0]

\* A first fallback strategy that drops the answer of the results endpoint.
GenFallbackResultsDropped(s, r) == [s EXCEPT !.pc = "alt", !.altIdx = 1]

\* First fallback strategy: the canonical results endpoint, outside any try.
GenFallbackResults(s, r) ==
    IF r.k = "throw" THEN Fail(s, ErrFetch)
    ELSE IF r.k = "badjson" THEN Fail(s, ErrParse)
    ELSE IF r.k = "ok" /\ Len(r.q) > 0 THEN Obtained(s, r.q)
    ELSE [s EXCEPT !.pc = "alt", !.altIdx = 1]

\* The generator's alternativePaths, by what they address.
GenAltPaths == <<"status", "results", "alt", "alt", "alt", "alt">>

\* One round of the alternative-path loop; errors move on to the next path.
GenAlternative(s, r) ==
    IF r.k = "ok" /\ Len(r.q) > 0 THEN Obtained(s, r.q)
    ELSE IF s.altIdx < Len(GenAltPaths) THEN [s EXCEPT !.altIdx = @ + 1]
    ELSE IF s.status = "pending" THEN [s EXCEPT !.pc = "resubmit", !.retry = 1]
    ELSE [s EXCEPT !.pc = "perItem"]

\* One round of the re-check loop: rg answers the GET, rp the POST that
\* follows a non-OK GET.
GenRecheck(s, rg, rp) ==
    LET final == IF rg.k = "throw" THEN rg
                 ELSE IF rg.k # "ok" /\ rp.k # "throw" THEN rp
                 ELSE rg
        next == IF s.retry < maxRetries THEN [s EXCEPT !.retry = @ + 1]
                ELSE [s EXCEPT !.pc = "perItem"]
    IN IF final.k = "ok" /\ Len(final.q) > 0 THEN Obtained(s, final.q) ELSE next

Min(a, b) == IF a < b THEN a ELSE b

Ceil(a, b) == (a + b - 1) \div b

\* A fallback call that always asks for a whole page.
CurrentCountWholePage(s) == questionsPerCall

\* The count the next fallback call asks for.
CurrentCount(s) == Min(s.args.count - Len(s.allQuestions), questionsPerCall)

\* One round of the per-item loop.
GenPerItem(s, r) ==
    LET numCalls == Ceil(s.args.count, questionsPerCall)
        asked == CurrentCount(s)
        all == s.allQuestions \o mapQuestionsToGenerated(r.q)
    IN IF r.k = "throw" THEN Fail(s, Err("FallbackFailed", "fetch failed", {"failed"}))
       ELSE IF r.k # "ok" THEN Fail(s, Err("FallbackFailed", r.k, {"failed"}))
       ELSE IF ~r.succ THEN Fail(s, Err("FallbackFailed", "Invalid response", {"failed"}))
       ELSE LET s1 == [s EXCEPT !.allQuestions = all,
                                !.asked = Append(@, asked),
                                !.exact = @ /\ Len(r.q) = asked]
            IN IF Len(s1.asked) < numCalls THEN s1
               ELSE [s1 EXCEPT !.pc = "save", !.questions = all]

\* Step 3 of the generator: retrieve the results of a completed batch.
GenResults(s, r) ==
    IF r.k = "throw" THEN Fail(s, ErrFetch)
    ELSE IF r.k = "badjson" THEN Fail(s, ErrParse)
    ELSE IF r.k # "ok"
         THEN Fail(s, Err("ResultsFailed", r.err, {"Failed to retrieve"} \cup TextHas(r.err)))
    ELSE IF ~r.succ THEN Fail(s, Err("InvalidResults", "", {}))
    ELSE Obtained(s, r.q)


\* ------------------------------------------- handleBatchStatusCheck (chk)
\* `Batch not found: ${batch_id}. The batch may not exist, may have expired,
\* or the batch ID may be invalid in Anthropic's API.`
ErrNotFound(b) == Err("NotFound", b, {"expired"} \cup IdHas(b))

\* The error thrown for a failure status reported by the status endpoint.
ErrReported(s) ==
    IF s = "expired" THEN Err("Expired", s, {"expired"})
    ELSE Err("JobFailed", s, {"failed"} \cup StatusHas(s))

\* Step 1: the first status request and the decision taken on its answer.
ChkStatusChecked(s, r, t) ==
    LET thrown == IF r.k = "throw" THEN ErrFetch
                  ELSE IF r.k = "badjson" THEN ErrParse
                  ELSE IF r.k = "h404" THEN ErrNotFound(s.args.batch_id)
                  ELSE IF r.k # "ok" /\ r.k # "h500"
                       THEN Err("StatusFailed", r.err, TextHas(r.err))
                  ELSE NoErr
        failed == \/ r.k = "h500"
                  \/ /\ thrown # NoErr
                     /\ Includes(thrown, "500") \/ Includes(thrown, "Failed to retrieve")
    IN IF failed THEN [s EXCEPT !.statusCheckFailed = TRUE, !.pc = "chkAlt", !.altIdx = 1]
       ELSE IF thrown # NoErr THEN Fail(s, thrown)
       ELSE IF r.s = "error" \/ r.s = "failed" \/ r.s = "expired" \/ r.s = "cancelled"
            THEN Fail([s EXCEPT !.processingStatus = r.s], ErrReported(r.s))
       ELSE IF r.s = "ended" \/ r.s = "completed"
            THEN [s EXCEPT !.processingStatus = r.s, !.pc = "chkResults"]
       ELSE IF r.s = "pending" \/ r.s = "processing"
            THEN [s EXCEPT !.processingStatus = r.s, !.pc = "poll",
                           !.startTime = t, !.pollCount = 0]
       ELSE [s EXCEPT !.processingStatus = r.s, !.pc = "chkResults"]

\* What the checker does once pollBatchStatus has returned the status data
\* of r or thrown: <<new locals, seconds slept>>.
ChkAfterPoll(s, res, r) ==
    IF res.act = "return"
    THEN IF r.s = "error" \/ r.s = "failed" \/ r.s = "expired" \/ r.s = "cancelled"
         THEN <<Fail([s EXCEPT !.processingStatus = r.s], Err("JobFailed", r.s, {"failed"})), 0>>
         ELSE <<[s EXCEPT !.processingStatus = r.s, !.pc = "chkResults"], 0>>
    ELSE IF \/ Includes(res.err, "failed") \/ Includes(res.err, "error")
            \/ Includes(res.err, "expired") \/ Includes(res.err, "cancelled")
         THEN <<Fail([s EXCEPT !.pollError = res.err], res.err), 0>>
    ELSE <<[s EXCEPT !.pollError = res.err, !.statusCheckFailed = TRUE,
                     !.pc = "chkAlt", !.altIdx = 1], 0>>

\* The checker's alternativePaths, by what they address.
ChkAltPaths == <<"results", "alt", "alt", "alt">>

ChkAlternative(s, r) ==
    IF r.k = "ok" /\ Len(r.q) > 0 THEN Obtained(s, r.q)
    ELSE IF s.altIdx < Len(ChkAltPaths) THEN [s EXCEPT !.altIdx = @ + 1]
    ELSE [s EXCEPT !.pc = "chkResults"]

\* The branches of the results handling that ask the status endpoint again
\* to word their error message.
ChkAsksStatusAgain(s, r) ==
    /\ s.statusCheckFailed \/ s.processingStatus = ""
    /\ \/ r.k = "h400" /\ "failed" \in TextHas(r.err)
       \/ r.k = "ok" /\ (~r.succ \/ r.err # "")

\* The texts a results body carries in its error and error_message fields;
\* "" stands for a missing field.
ErrorTexts == {"", "Batch failed", "Batch has EXPIRED", "Batch not found",
               "Invalid batch id", "Batch does not exist",
               "Empty status received from Anthropic API"}

\* The searched lower-case substrings that text.toLowerCase() contains.
LowerHas(text) ==
    IF text = "Batch has EXPIRED" THEN {"expired"}
    ELSE IF text = "Batch not found" THEN {"not found"}
    ELSE IF text = "Invalid batch id" THEN {"invalid"}
    ELSE IF text = "Batch does not exist" THEN {"does not exist"}
    ELSE IF text = "Empty status received from Anthropic API"
         THEN {"empty status received from anthropic api"}
    ELSE {}

\* status.toLowerCase()
ToLowerCase(status) == IF status = "Expired" THEN "expired" ELSE status

\* The body of a results response: success is "true", "false" or "missing".
ResultsData(success, error, error_message, status, questions) ==
    [success |-> success, error |-> error, error_message |-> error_message,
     status |-> status, questions |-> questions]

\* The body of the backend answer r, which carries no error_message and no
\* status.
BodyOf(r) == ResultsData(IF r.succ THEN "true" ELSE "false", r.err, "", "", r.q)

\* !isSuccess || successIsFalse || hasError
IndicatesFailure(resultsData) ==
    resultsData.success # "true" \/ resultsData.success = "false" \/ resultsData.error # ""

errorMsg(resultsData) ==
    IF resultsData.error # "" THEN resultsData.error
    ELSE IF resultsData.error_message # "" THEN resultsData.error_message
    ELSE IF resultsData.success = "false" THEN "Batch processing failed"
    ELSE "Batch results indicate failure"

resultErrorMsg(resultsData) ==
    IF resultsData.error_message # "" THEN resultsData.error_message
    ELSE errorMsg(resultsData)

isEmptyStatusError(resultsData) ==
    "empty status received from anthropic api" \in LowerHas(resultErrorMsg(resultsData))

isExpired(resultsData, processingStatus) ==
    \/ "expired" \in LowerHas(errorMsg(resultsData))
    \/ ToLowerCase(resultsData.status) = "expired"
    \/ ToLowerCase(processingStatus) = "expired"
    \/ isEmptyStatusError(resultsData)

isInvalidBatchId(resultsData) ==
    \/ LowerHas(errorMsg(resultsData)) \cap {"not found", "invalid", "expired", "does not exist"} # {}
    \/ isEmptyStatusError(resultsData)

\* The error thrown for a body that indicates failure: `Batch ${batch_id} has
\* expired in Anthropic's API...`, `Batch ID ${batch_id} appears to be
\* invalid or expired...`, or the text of the body, with or without `Batch
\* processing failed. Status: ...` in front.
detailedError(batch_id, processingStatus, resultsData) ==
    IF isExpired(resultsData, processingStatus)
    THEN Err("Expired",
             IF isEmptyStatusError(resultsData) THEN "empty status" ELSE errorMsg(resultsData),
             {"expired", batch_id} \cup IdHas(batch_id))
    ELSE IF isInvalidBatchId(resultsData)
    THEN Err("InvalidBatch", errorMsg(resultsData),
             {"expired", batch_id} \cup IdHas(batch_id))
    ELSE Err("JobFailed", errorMsg(resultsData), TextHas(errorMsg(resultsData)))

\* What the checker makes of the body of a 200 answer of the results
\* endpoint.
ChkResultsBody(s, resultsData) ==
    IF IndicatesFailure(resultsData)
    THEN Fail(s, detailedError(s.args.batch_id, s.processingStatus, resultsData))
    ELSE Obtained(s, resultsData.questions)

\* The standard results request and everything that follows from its answer.
ChkResults(s, r) ==
    IF r.k = "throw" THEN Fail(s, ErrFetch)
    ELSE IF r.k = "badjson" THEN Fail(s, ErrParse)
    ELSE IF r.k = "h404" THEN Fail(s, ErrNotFound(s.args.batch_id))
    ELSE IF r.k = "h400" /\ "failed" \in TextHas(r.err)
         THEN Fail(s, Err("JobFailed", r.err, {"failed"}))
    ELSE IF r.k # "ok" /\ (s.processingStatus = "error" \/ s.processingStatus = "failed")
         THEN Fail(s, Err("JobFailed", s.processingStatus, {"failed"}))
    ELSE IF r.k # "ok"
         THEN Fail(s, Err("ResultsFailed", r.err, {"Failed to retrieve"} \cup TextHas(r.err)))
    ELSE ChkResultsBody(s, BodyOf(r))

\* ----------------------------------------------------------------- persist
\* The characters [a-zA-Z0-9].
AlphaNum ==
    {"a", "b", "c", "d", "e", "f", "g", "h", "i", "j", "k", "l", "m",
     "n", "o", "p", "q", "r", "s", "t", "u", "v", "w", "x", "y", "z",
     "A", "B", "C", "D", "E", "F", "G", "H", "I", "J", "K", "L", "M",
     "N", "O", "P", "Q", "R", "S", "T", "U", "V", "W", "X", "Y", "Z",
     "0", "1", "2", "3", "4", "5", "6", "7", "8", "9"}

\* The batch ids of the jobs that are looked up concurrently: two that
\* differ in a character outside [a-zA-Z0-9] and two that differ past
\* their twentieth character.
JobIds == {"batch-1", "batch_1", "msgbatch_01AbCdEfGhIjK", "msgbatch_01AbCdEfGhIjL"}

\* A batch id, character by character.
Chars(b) ==
    IF b = "batch1" THEN <<"b", "a", "t", "c", "h", "1">>
    ELSE IF b = "batch500" THEN <<"b", "a", "t", "c", "h", "5", "0", "0">>
    ELSE IF b = "batch-1" THEN <<"b", "a", "t", "c", "h", "-", "1">>
    ELSE IF b = "batch_1" THEN <<"b", "a", "t", "c", "h", "_", "1">>
    ELSE <<"m", "s", "g", "b", "a", "t", "c", "h", "_", "0", "1", "A", "b", "C", "d",
           "E", "f", "G", "h", "I", "j">>
         \o (IF b = "msgbatch_01AbCdEfGhIjK" THEN <<"K">> ELSE <<"L">>)

\* String.prototype.substring(0, n)
Substring(chars, n) == [i \in 1..(IF Len(chars) < n THEN Len(chars) ELSE n) |-> chars[i]]

\* batchId.replace(/[^a-zA-Z0-9]/g, '_').substring(0, 20)
Sanitize(b) ==
    Substring([i \in 1..Len(Chars(b)) |->
                 IF Chars(b)[i] \in AlphaNum THEN Chars(b)[i] ELSE "_"], 20)

\* The file name: its key (the certification and "all" for the generator,
\* the sanitized batch id for the checker), the number of questions, the
\* ISO timestamp cut to whole seconds, and the extension.
generateFilename(s, t) ==
    [key |-> IF s.tool = "gen"
             THEN <<"C", "V", "0", "0", "0", "4", "_", "a", "l", "l">>
             ELSE Sanitize(s.args.batch_id),
     count |-> Len(s.questions),
     timestamp |-> t,
     ext |-> s.args.output_format]

\* fs.writeFile: creates the file or replaces what it held.
WriteFile(fs, name, content) ==
    {f \in fs : f[1] # name} \cup {<<name, content>>}


\* ----------------------------------------------------------------- actions
Set(p, s) == proc' = [proc EXCEPT ![p] = s]

\* The backend's job state after answering r about batch b.
Answered(b, r) == jobStatus' = [jobStatus EXCEPT ![b] = r.job]

\* The locals of a handler that has validated its arguments: tool t, wait
\* configuration w, output format f, count c, batch id b.
Called(t, w, f, c, b) ==
    [Idle EXCEPT
        !.tool = t,
        !.pc = IF t = "gen" THEN "submit" ELSE "status",
        !.batchId = IF t = "gen" THEN "" ELSE b,
        !.args = [certification_type |-> "CV0-004",
                  count |-> IF t = "gen" THEN c ELSE 0,
                  output_format |-> f,
                  pollInterval |-> w[1],
                  maxWaitTime |-> w[2],
                  batch_id |-> IF t = "gen" THEN "" ELSE b]]

\* The MCP server receives a tool call and validates its arguments.
StartWith(p, tools, waits, counts, formats) ==
    /\ p \in active
    /\ proc[p].pc = "idle"
    /\ \E t \in tools, w \in waits, f \in formats, c \in counts, b \in BatchIds :
         /\ t = "gen" => b = "batch1"
         /\ t = "chk" => c = MinCount
         /\ Set(p, Called(t, w, f, c, b))
    /\ UNCHANGED <<now, ticks, files, writes, jobStatus, healthy, active>>

Start(p) == StartWith(p, Tools, WaitConfigs, CountValues, {"json"})

\* A second of wall-clock time passes while a status request is in flight
\* or while the results are being formatted for the output file.
Tick ==
    /\ ticks < MaxTicks
    /\ \E p \in Procs : proc[p].pc \in {"poll", "save"}
    /\ ticks' = ticks + 1
    /\ now' = now + 1
    /\ UNCHANGED <<files, writes, jobStatus, healthy, active, proc>>

\* The job ends successfully after the call about it has given up.
JobEnds(b) ==
    /\ \E p \in Procs : proc[p].pc = "done" /\ proc[p].result = "error" /\ proc[p].batchId = b
    /\ Rank("ended") > Rank(jobStatus[b])
    /\ jobStatus' = [jobStatus EXCEPT ![b] = "ended"]
    /\ UNCHANGED <<now, ticks, files, writes, healthy, active, proc>>

Submit(p) ==
    /\ proc[p].pc = "submit"
    /\ \E r \in SubmitResps :
         /\ Set(p, GenSubmitted(Heard(proc[p], "submit", r), r, now))
         /\ jobStatus' = IF r.k = "ok" /\ r.id # ""
                         THEN [jobStatus EXCEPT ![r.id] = r.job]
                         ELSE jobStatus
    /\ UNCHANGED <<now, ticks, files, writes, healthy, active>>

DirectResults(p) ==
    /\ proc[p].pc = "directResults"
    /\ \E r \in ResultsResps(proc[p].batchId) :
         /\ Set(p, GenDirectResults(Heard(proc[p], "results", r), r, now))
         /\ Answered(proc[p].batchId, r)
    /\ UNCHANGED <<now, ticks, files, writes, healthy, active>>

\* One iteration of the polling loop and, when it ends the loop, the
\* caller's handling of the outcome.
PollBatchStatus(p) ==
    /\ proc[p].pc = "poll"
    /\ proc[p].pollCount < MaxPolls
    /\ \E r \in StatusResps(proc[p].batchId) :
         LET s == [Heard(proc[p], "status", r) EXCEPT !.pollCount = @ + 1]
             res == PollIteration(r, now - s.startTime, s.args.maxWaitTime)
             out == IF res.act = "sleep" THEN <<s, s.args.pollInterval>>
                    ELSE IF s.tool = "gen" THEN GenAfterPoll(s, res)
                    ELSE ChkAfterPoll(s, res, r)
         IN /\ Set(p, out[1])
            /\ now' = now + out[2]
            /\ Answered(proc[p].batchId, r)
    /\ UNCHANGED <<ticks, files, writes, healthy, active>>

FallbackResults(p) ==
    /\ proc[p].pc = "fbResults"
    /\ \E r \in ResultsResps(proc[p].batchId) :
         /\ Set(p, GenFallbackResults(Heard(proc[p], "results", r), r))
         /\ Answered(proc[p].batchId, r)
    /\ UNCHANGED <<now, ticks, files, writes, healthy, active>>

\* The answers a guessed path can give.
PathResps(kind, b) ==
    IF kind = "status" THEN StatusResps(b)
    ELSE IF kind = "results" THEN ResultsResps(b)
    ELSE OtherPathResps(b)

Alternative(p) ==
    /\ proc[p].pc = "alt"
    /\ LET kind == GenAltPaths[proc[p].altIdx] IN
       \E r \in PathResps(kind, proc[p].batchId) :
         /\ Set(p, GenAlternative(Heard(proc[p], kind, r), r))
         /\ Answered(proc[p].batchId, r)
    /\ UNCHANGED <<now, ticks, files, writes, healthy, active>>

Recheck(p) ==
    /\ proc[p].pc = "resubmit"
    /\ \E rg \in RecheckResps(proc[p].batchId), rp \in RecheckResps(proc[p].batchId) :
         /\ (rg.k = "ok" \/ rg.k = "throw") => rp = rg
         /\ Set(p, GenRecheck(Heard(proc[p], "resubmit", rg), rg, rp))
         /\ Answered(proc[p].batchId, IF Rank(rp.job) > Rank(rg.job) THEN rp ELSE rg)
    /\ now' = now + proc[p].args.pollInterval * proc[p].retry
    /\ UNCHANGED <<ticks, files, writes, healthy, active>>

PerItem(p) ==
    /\ proc[p].pc = "perItem"
    /\ \E r \in PerItemResps(Len(proc[p].asked) + 1, CurrentCount(proc[p])) :
         Set(p, GenPerItem(Heard(proc[p], "perItem", r), r))
    /\ UNCHANGED <<now, ticks, files, writes, jobStatus, healthy, active>>

Results(p) ==
    /\ proc[p].pc = "results"
    /\ \E r \in ResultsResps(proc[p].batchId) :
         /\ Set(p, GenResults(Heard(proc[p], "results", r), r))
         /\ Answered(proc[p].batchId, r)
    /\ UNCHANGED <<now, ticks, files, writes, healthy, active>>

StatusCheck(p) ==
    /\ proc[p].pc = "status"
    /\ \E r \in StatusResps(proc[p].batchId) :
         /\ Set(p, ChkStatusChecked(Heard(proc[p], "status", r), r, now))
         /\ Answered(proc[p].batchId, r)
    /\ UNCHANGED <<now, ticks, files, writes, healthy, active>>

ChkAlt(p) ==
    /\ proc[p].pc = "chkAlt"
    /\ LET kind == ChkAltPaths[proc[p].altIdx] IN
       \E r \in PathResps(kind, proc[p].batchId) :
         /\ Set(p, ChkAlternative(Heard(proc[p], kind, r), r))
         /\ Answered(proc[p].batchId, r)
    /\ UNCHANGED <<now, ticks, files, writes, healthy, active>>

CheckResults(p) ==
    /\ proc[p].pc = "chkResults"
    /\ \E r \in ResultsResps(proc[p].batchId) :
         LET s == Heard(proc[p], "results", r) IN
         IF ChkAsksStatusAgain(s, r)
         THEN \E r2 \in StatusResps(proc[p].batchId) :
                /\ Set(p, ChkResults(Heard(s, "status", r2), r))
                /\ Answered(proc[p].batchId, r2)
         ELSE /\ Set(p, ChkResults(s, r))
              /\ Answered(proc[p].batchId, r)
    /\ UNCHANGED <<now, ticks, files, writes, healthy, active>>

\* The handler formats the questions and writes them to the output file.
Save(p) ==
    /\ proc[p].pc = "save"
    /\ LET name == generateFilename(proc[p], now) IN
       /\ files' = WriteFile(files, name, proc[p].questions)
       /\ writes' = Append(writes, name)
    /\ Set(p, [proc[p] EXCEPT !.pc = "done", !.result = "ok"])
    /\ UNCHANGED <<now, ticks, jobStatus, healthy, active>>

\* ---------------------------------------------------------- specifications
InitCommon ==
    /\ now = 0
    /\ ticks = 0
    /\ files = {}
    /\ writes = <<>>
    /\ jobStatus = [b \in BatchIds |-> "pending"]

\* One tool call against a backend that may misbehave on any request.
Init ==
    /\ InitCommon
    /\ proc = [p \in Procs |-> Idle]
    /\ healthy = FALSE
    /\ active = {1}

Next ==
    \/ Tick
    \/ \E b \in BatchIds : JobEnds(b)
    \/ \E p \in Procs :
         \/ Start(p)
         \/ Submit(p)
         \/ DirectResults(p)
         \/ PollBatchStatus(p)
         \/ FallbackResults(p)
         \/ Alternative(p)
         \/ Recheck(p)
         \/ PerItem(p)
         \/ Results(p)
         \/ StatusCheck(p)
         \/ ChkAlt(p)
         \/ CheckResults(p)
         \/ Save(p)

Spec == Init /\ [][Next]_vars

TypeOK ==
    /\ now \in Nat
    /\ \A p \in Procs : proc[p].result \in {"none", "ok", "error"}

\* Two status-checker calls running concurrently, about jobs the backend is
\* already processing and against a backend that answers every request
\* properly.
StartPair(p) == StartWith(p, {"chk"}, {<<5, 10>>}, {MinCount}, Formats)

InitPair ==
    /\ now = 0
    /\ ticks = 0
    /\ files = {}
    /\ writes = <<>>
    /\ jobStatus = [b \in BatchIds |-> "processing"]
    /\ proc = [p \in Procs |-> Idle]
    /\ healthy = TRUE
    /\ active = Procs

NextPair ==
    \/ Tick
    \/ \E p \in Procs :
         \/ StartPair(p)
         \/ PollBatchStatus(p)
         \/ StatusCheck(p)
         \/ CheckResults(p)
         \/ Save(p)

SpecPair == InitPair /\ [][NextPair]_vars

\* The generator at the entry of its per-item fallback: the submission named
\* a batch, the first status poll was answered 500, and the results endpoint
\* and every guessed path answered 404.
FallbackEntry(c, w) ==
    LET b == "batch1"
        sub == Resp("ok", "", <<>>, TRUE, "", b, "pending")
        h500 == Resp("h500", "", <<>>, FALSE, "", "", "pending")
        st404 == Resp("h404", "", <<>>, FALSE, "", "", "pending")
        h404 == Resp("h404", "", <<>>, FALSE, "Not Found", "", "pending")
        s0 == Called("gen", w, "json", c, b)
        s1 == GenSubmitted(Heard(s0, "submit", sub), sub, 0)
        s2 == [Heard(s1, "status", h500) EXCEPT !.pollCount = @ + 1]
        s3 == GenAfterPoll(s2, PollIteration(h500, 0, w[2]))[1]
        s4 == GenFallbackResults(Heard(s3, "results", h404), h404)
        s5 == GenAlternative(Heard(s4, "status", st404), st404)
        s6 == GenAlternative(Heard(s5, "results", h404), h404)
        s7 == GenAlternative(Heard(s6, "alt", h404), h404)
        s8 == GenAlternative(Heard(s7, "alt", h404), h404)
        s9 == GenAlternative(Heard(s8, "alt", h404), h404)
    IN GenAlternative(Heard(s9, "alt", h404), h404)

\* The per-item fallback on its own, for every count the schema admits.
InitFallback ==
    /\ ticks = 0
    /\ files = {}
    /\ writes = <<>>
    /\ jobStatus = [b \in BatchIds |-> "pending"]
    /\ healthy = FALSE
    /\ active = {1}
    /\ \E c \in MinCount..MaxCount, w \in WaitConfigs :
         /\ now = w[1]
         /\ proc = [p \in Procs |-> IF p = 1 THEN FallbackEntry(c, w) ELSE Idle]

NextFallback ==
    \/ Tick
    \/ PerItem(1)
    \/ Save(1)

SpecFallback == InitFallback /\ [][NextFallback]_vars

\* The state the per-item fallback is entered in is a state of the whole
\* program.
FallbackEntryReached ==
    \E c \in CountValues, w \in WaitConfigs :
        /\ proc[1] = FallbackEntry(c, w)
        /\ now = w[1]
        /\ jobStatus = [b \in BatchIds |-> "pending"]
        /\ ticks = 0 /\ files = {} /\ writes = <<>>

\* ------------------------------------------------------------------ claims
\* The ids of a list of questions, in order.
Ids(q) == [i \in 1..Len(q) |-> q[i].id]

\* Process p has just completed one poll attempt of pollBatchStatus.
Polled(p) ==
    /\ proc[p].pc = "poll"
    /\ proc'[p].pollCount = proc[p].pollCount + 1

\* C1: once a status response has reported a failure-terminal status
\* (expired, cancelled, failed, error), the call never afterwards sends a
\* request to the results endpoint.
C1_NoResultsAfterFailureStatus ==
    [][\A p \in Procs :
          proc[p].failSeen => proc'[p].reqs.results = proc[p].reqs.results]_vars

\* C2: a poll attempt that completes after maxWaitTime has elapsed ends
\* pollBatchStatus, whatever the status endpoint answered.
C2_PollEndsAfterMaxWait ==
    [][\A p \in Procs :
          (Polled(p) /\ now - proc[p].startTime > proc[p].args.maxWaitTime)
              => proc'[p].pc # "poll"]_vars

\* C3: a poll that observes a failure-terminal status ends the call at once
\* with a job-failed error naming that status, without sleeping.
C3_FailureStatusAbortsPolling ==
    [][\A p \in Procs :
          (Polled(p) /\ proc'[p].lastResp = "ok"
                     /\ proc'[p].lastSeen \in FailureTerminal)
              => /\ proc'[p].pc = "done"
                 /\ proc'[p].result = "error"
                 /\ proc'[p].error.kind = "JobFailed"
                 /\ proc'[p].error.arg = proc'[p].lastSeen
                 /\ now' = now]_vars

\* C4: the status checker sends no request to the results endpoint while
\* the last status it observed is non-terminal.
C4_NoResultsWhileNonTerminal ==
    [][\A p \in Procs :
          (proc[p].tool = "chk" /\ proc'[p].reqs.results > proc[p].reqs.results)
              => proc[p].lastSeen \notin NonTerminal]_vars

C6_TimeoutIsFinal ==
    \A p \in Procs :
        (proc[p].pollError.kind = "Timeout" /\ proc[p].lastSeen \in NonTerminal)
            => /\ proc[p].pc = "done"
               /\ proc[p].result = "error"
               /\ proc[p].error.kind = "Timeout"

\* C7 as stated: when the status endpoint answered 500 every time and the
\* results endpoint, not ready at first, comes to serve the job's items, the
\* call has returned exactly those items.
C7_WaitsForResults ==
    \A p \in Procs :
        (/\ proc[p].pc = "done"
         /\ proc[p].reqs.status >= 1 /\ proc[p].statusAll500
         /\ proc[p].reqs.results >= 1 /\ proc[p].resultsNotReady
         /\ jobStatus[proc[p].batchId] \in SuccessTerminal)
            => /\ proc[p].result = "ok"
               /\ Ids(proc[p].questions) = Ids(JobItems(proc[p].batchId))

\* C7 amended: when the status endpoint answered 500 every time and the
\* results endpoint answered a request of the call with the job's items,
\* the call returns exactly those items.
C7_ServedResultsReturned ==
    \A p \in Procs :
        (/\ proc[p].pc = "done"
         /\ proc[p].reqs.status >= 1 /\ proc[p].statusAll500
         /\ proc[p].served)
            => /\ proc[p].result = "ok"
               /\ Ids(proc[p].questions) = Ids(JobItems(proc[p].batchId))
               /\ \E f \in files : Ids(f[2]) = Ids(JobItems(proc[p].batchId))

\* The fallback path returned the three items of the job.
C7_Witness ==
    \E p \in Procs :
        /\ proc[p].pc = "done" /\ proc[p].result = "ok"
        /\ proc[p].reqs.status >= 1 /\ proc[p].statusAll500
        /\ proc[p].served
        /\ proc[p].pollError.kind = "StatusCheckFailed" \/ proc[p].statusCheckFailed
        /\ Len(proc[p].questions) = 3

\* The items of the fallback calls that asked for asked[1], asked[2], ...
Aggregated(asked) ==
    LET F[i \in 0..Len(asked)] ==
            IF i = 0 THEN <<>> ELSE F[i - 1] \o FreshItems(i, asked[i])
    IN F[Len(asked)]

\* The per-item fallback of process p has run to its end.
FallbackCompleted(p) ==
    /\ proc[p].tool = "gen"
    /\ proc[p].reqs.perItem >= 1
    /\ proc[p].pc \in {"save", "done"}
    /\ proc[p].result # "error"

\* C8: when every per-item call returns exactly what it was asked for, a
\* request for n items makes ceil(n/10) calls, each asking for 1..10 items,
\* and aggregates exactly n items in call order; n = 25 makes the calls
\* 10, 10, 5.
C8_ExactFallback ==
    \A p \in Procs :
        (FallbackCompleted(p) /\ proc[p].exact) =>
            LET n == proc[p].args.count
                asked == proc[p].asked
            IN /\ n \in MinCount..MaxCount
               /\ proc[p].reqs.perItem = (n + questionsPerCall - 1) \div questionsPerCall
               /\ Len(asked) = proc[p].reqs.perItem
               /\ \A i \in 1..Len(asked) : asked[i] \in 1..questionsPerCall
               /\ Len(proc[p].questions) = n
               /\ Ids(proc[p].questions) = Ids(Aggregated(asked))
               /\ n = 25 => asked = <<10, 10, 5>>

\* 25 items were asked for and came in three calls.
C8_Witness ==
    \E p \in Procs :
        /\ FallbackCompleted(p) /\ proc[p].exact
        /\ proc[p].pc = "done"
        /\ proc[p].args.count = 25
        /\ proc[p].asked = <<10, 10, 5>>
        /\ Len(proc[p].questions) = 25

\* C9: a per-item fallback that completed has accumulated exactly the
\* requested count, whatever number of items each call returned.
C9_FallbackCountMet ==
    \A p \in Procs :
        FallbackCompleted(p) => Len(proc[p].questions) = proc[p].args.count

\* C10: no two persist calls write to the same file name.
C10_DistinctFileNames ==
    \A i, j \in 1..Len(writes) : i # j => writes[i] # writes[j]

\* ------------------------------------------------------------- SQL output
\* Texts are sequences of characters.  The characters the formatter and the
\* database treat specially:
Quote == "'"
DQuote == "\""
Backslash == "\\"

\* The option texts of the questions written in SQL format: plain ones,
\* ones with single quotes (alone, doubled, at either end), and ones with
\* the characters JSON escapes or uses as punctuation.
Texts ==
    { <<"a">>, <<"b">>, <<"i", Quote, "s">>, <<Quote, Quote>>,
      <<DQuote, ",", Backslash>>, <<"]", Quote>> }

\* Array.prototype.join over texts.
RECURSIVE Join(_, _)
Join(ss, sep) ==
    IF ss = <<>> THEN <<>>
    ELSE IF Len(ss) = 1 THEN ss[1]
    ELSE ss[1] \o sep \o Join(Tail(ss), sep)

\* text.replace(/'/g, "''") with the replacement left out.
escapeSQLKeepsQuotes(text) == text

\* text.replace(/'/g, "''")
escapeSQL(text) ==
    Join([i \in 1..Len(text) |->
            IF text[i] = Quote THEN <<Quote, Quote>> ELSE <<text[i]>>], <<>>)

\* JSON.stringify of a string: quoted, with the quote and the backslash
\* escaped by a backslash.
JSONstringifyText(text) ==
    <<DQuote>>
    \o Join([i \in 1..Len(text) |->
               IF text[i] \in {DQuote, Backslash} THEN <<Backslash, text[i]>>
               ELSE <<text[i]>>], <<>>)
    \o <<DQuote>>

\* JSON.stringify of an array of strings.
JSONstringify(options) ==
    <<"[">>
    \o Join([i \in 1..Len(options) |-> JSONstringifyText(options[i])], <<",">>)
    \o <<"]">>

\* A question as the formatter reads it: the option texts and the 0-based
\* indices of the correct ones.
Question(options, correct_answers) ==
    [id |-> 1, domain |-> "Cloud Security", options |-> options,
     correct_answers |-> correct_answers]

\* options[idx] is undefined for an index outside the list, and for the
\* first index of an empty list; escapeSQL(undefined) throws a TypeError.
FormatThrows(question) ==
    \/ question.correct_answers = <<>>
    \/ \E k \in 1..Len(question.correct_answers) :
         question.correct_answers[k] \notin 0..(Len(question.options) - 1)

\* The columns options, correct_answer, multiple_answers and
\* correct_answers of the VALUES list of one INSERT statement, as the
\* characters written to the file.
InsertValues(question) ==
    LET options == question.options
        correct_answers == question.correct_answers
        optionsJson == escapeSQL(JSONstringify(options))
        multipleAnswers == Len(correct_answers) > 1
        correctAnswersArray ==
            [k \in 1..Len(correct_answers) |-> options[correct_answers[k] + 1]]
        correctAnswer ==
            IF multipleAnswers THEN <<"NULL">>
            ELSE <<Quote>> \o escapeSQL(options[correct_answers[1] + 1]) \o <<Quote>>
        correctAnswersSQL ==
            <<"ARRAY[">>
            \o Join([k \in 1..Len(correctAnswersArray) |->
                       <<Quote>> \o escapeSQL(correctAnswersArray[k]) \o <<Quote>>],
                    <<",", " ">>)
            \o <<"]">>
    IN <<Quote>> \o optionsJson \o <<Quote, "::jsonb", ",">>
       \o correctAnswer \o <<",">>
       \o <<IF multipleAnswers THEN "1" ELSE "0">> \o <<",">>
       \o correctAnswersSQL

\* formatQuestionsAsSQL: one INSERT statement per question, or the
\* TypeError of the first question that cannot be formatted.
formatQuestionsAsSQL(questions) ==
    IF \E i \in 1..Len(questions) : FormatThrows(questions[i])
    THEN [threw |-> TRUE, statements |-> <<>>]
    ELSE [threw |-> FALSE,
          statements |-> [i \in 1..Len(questions) |-> InsertValues(questions[i])]]

\* The handler with output_format "sql": it formats the questions as INSERT
\* statements and writes them to the output file; a TypeError of the
\* formatter reaches the caller and no file is written.
SaveSQL(p) ==
    /\ proc[p].pc = "save"
    /\ proc[p].args.output_format = "sql"
    /\ LET sqlStatements == formatQuestionsAsSQL(proc[p].questions)
           name == generateFilename(proc[p], now)
       IN IF sqlStatements.threw
          THEN /\ Set(p, Fail(proc[p], Err("TypeError", "", {})))
               /\ UNCHANGED <<files, writes>>
          ELSE /\ files' = WriteFile(files, name, sqlStatements.statements)
               /\ writes' = Append(writes, name)
               /\ Set(p, [proc[p] EXCEPT !.pc = "done", !.result = "ok"])
    /\ UNCHANGED <<now, ticks, jobStatus, healthy, active>>

\* The option lists and the correct-answer index lists of the questions the
\* backend may return: up to three options, up to two indices, in any
\* order, repeated or not, inside the option list or one past its end.
OptionLists == UNION {[1..n -> Texts] : n \in 0..3}
IndexLists == UNION {[1..n -> 0..3] : n \in 0..2}

\* The generator about to save, in SQL format, the one question the
\* submission returned directly.
SaveEntry(options, correct_answers) ==
    [Called("gen", <<5, 10>>, "sql", MinCount, "batch1") EXCEPT
        !.pc = "save",
        !.reqs = [NoReqs EXCEPT !.submit = 1],
        !.questions = <<Question(options, correct_answers)>>]

InitSql ==
    /\ InitCommon
    /\ healthy = TRUE
    /\ active = {1}
    /\ \E options \in OptionLists, correct_answers \in IndexLists :
         proc = [p \in Procs |-> IF p = 1 THEN SaveEntry(options, correct_answers)
                                 ELSE Idle]

NextSql ==
    \/ Tick
    \/ SaveSQL(1)

SpecSql == InitSql /\ [][NextSql]_vars

\* ------------------------------------------------ claim C11: reading back
\* What the database stores when it executes the statement.  The character
\* of str at position i, "" past the end.
At(str, i) == IF i \in 1..Len(str) THEN str[i] ELSE ""

Unread == [ok |-> FALSE, text |-> <<>>, next |-> 0]

\* The rest of a single-quoted SQL string constant from position j on: two
\* adjacent quotes stand for one quote, a lone quote ends the constant.
RECURSIVE ReadQuoted(_, _, _)
ReadQuoted(str, j, acc) ==
    IF j > Len(str) THEN Unread
    ELSE IF str[j] = Quote
         THEN IF At(str, j + 1) = Quote
              THEN ReadQuoted(str, j + 2, Append(acc, Quote))
              ELSE [ok |-> TRUE, text |-> acc, next |-> j + 1]
    ELSE ReadQuoted(str, j + 1, Append(acc, str[j]))

\* The string constant that starts at position i.
ReadLiteral(str, i) == IF At(str, i) = Quote THEN ReadQuoted(str, i + 1, <<>>) ELSE Unread

\* The rest of a JSON string from position j on: a backslash escapes the
\* character after it, a double quote ends the string.
RECURSIVE ReadJsonString(_, _, _)
ReadJsonString(str, j, acc) ==
    IF j > Len(str) THEN Unread
    ELSE IF str[j] = Backslash
         THEN IF j + 1 > Len(str) THEN Unread
              ELSE ReadJsonString(str, j + 2, Append(acc, str[j + 1]))
    ELSE IF str[j] = DQuote THEN [ok |-> TRUE, text |-> acc, next |-> j + 1]
    ELSE ReadJsonString(str, j + 1, Append(acc, str[j]))

NoList == [ok |-> FALSE, elems |-> <<>>, next |-> 0]

\* The elements of a JSON array of strings from position j on.
RECURSIVE ReadJsonElems(_, _, _)
ReadJsonElems(str, j, acc) ==
    IF At(str, j) # DQuote THEN NoList
    ELSE LET e == ReadJsonString(str, j + 1, <<>>) IN
         IF ~e.ok THEN NoList
         ELSE IF At(str, e.next) = "]"
              THEN [ok |-> TRUE, elems |-> Append(acc, e.text), next |-> e.next + 1]
         ELSE IF At(str, e.next) = ","
              THEN ReadJsonElems(str, e.next + 1, Append(acc, e.text))
         ELSE NoList

\* A jsonb value that is an array of strings.
ParseJsonArray(str) ==
    LET r == IF At(str, 1) # "[" THEN NoList
             ELSE IF At(str, 2) = "]" THEN [ok |-> TRUE, elems |-> <<>>, next |-> 3]
             ELSE ReadJsonElems(str, 2, <<>>)
    IN IF r.ok /\ r.next = Len(str) + 1 THEN r ELSE NoList

\* The elements of an ARRAY[...] constructor of string constants from
\* position j on.
RECURSIVE ReadArrayElems(_, _, _)
ReadArrayElems(str, j, acc) ==
    LET e == ReadLiteral(str, j) IN
    IF ~e.ok THEN NoList
    ELSE IF At(str, e.next) = "]"
         THEN [ok |-> TRUE, elems |-> Append(acc, e.text), next |-> e.next + 1]
    ELSE IF At(str, e.next) = "," /\ At(str, e.next + 1) = " "
         THEN ReadArrayElems(str, e.next + 2, Append(acc, e.text))
    ELSE NoList

NoRow == [ok |-> FALSE, options |-> <<>>, multiple_answers |-> FALSE,
          correct_answers |-> <<>>]

\* The row the VALUES list inserts: the options column, the
\* multiple_answers flag and the correct_answers column.
StoredRow(str) ==
    LET o == ReadLiteral(str, 1)
        json == IF o.ok THEN ParseJsonArray(o.text) ELSE NoList
        a == IF At(str, o.next + 2) = "NULL"
             THEN [ok |-> TRUE, text |-> <<>>, next |-> o.next + 3]
             ELSE ReadLiteral(str, o.next + 2)
        m == At(str, a.next + 1)
        c == IF At(str, a.next + 3) # "ARRAY[" THEN NoList
             ELSE IF At(str, a.next + 4) = "]"
                  THEN [ok |-> TRUE, elems |-> <<>>, next |-> a.next + 5]
             ELSE ReadArrayElems(str, a.next + 4, <<>>)
    IN IF /\ o.ok /\ json.ok
          /\ At(str, o.next) = "::jsonb" /\ At(str, o.next + 1) = ","
          /\ a.ok /\ At(str, a.next) = ","
          /\ m \in {"0", "1"} /\ At(str, a.next + 2) = ","
          /\ c.ok /\ c.next = Len(str) + 1
       THEN [ok |-> TRUE, options |-> json.elems, multiple_answers |-> m = "1",
             correct_answers |-> c.elems]
       ELSE NoRow

\* The 0-based indices of the options a stored row marks as correct: the
\* options whose text is among the correct answers.
SelectedIndices(row) ==
    {i \in 0..(Len(row.options) - 1) :
        \E k \in 1..Len(row.correct_answers) : row.correct_answers[k] = row.options[i + 1]}

Range(f) == {f[x] : x \in DOMAIN f}

\* The statements of the SQL files written under the name of call p.
WrittenSql(p) ==
    {f[2] : f \in {g \in files : /\ g[1].key = generateFilename(proc[p], now).key
                                 /\ g[1].ext = "sql"}}

SavedSql(p) ==
    /\ proc[p].pc = "done" /\ proc[p].result = "ok"
    /\ proc[p].args.output_format = "sql"

\* Statement i of the file, read back, is question i with its option texts
\* and its set of selected indices.
ReadsBack(statements, questions) ==
    /\ Len(statements) = Len(questions)
    /\ \A i \in 1..Len(questions) :
         LET row == StoredRow(statements[i]) IN
         /\ row.ok
         /\ row.options = questions[i].options
         /\ SelectedIndices(row) = Range(questions[i].correct_answers)

PairwiseDistinct(options) ==
    \A i, j \in 1..Len(options) : options[i] = options[j] => i = j

\* C11 as stated: every question written in SQL format reads back with its
\* original option texts and its original set of selected indices.
C11_SqlRoundTrip ==
    SavedSql(1) =>
        \A statements \in WrittenSql(1) : ReadsBack(statements, proc[1].questions)

\* C11, amended: a question whose option texts are pairwise distinct, single
\* quotes in them or not, reads back from the SQL file with its original
\* option texts and its original set of selected indices.
C11_SqlRoundTripDistinctOptions ==
    (SavedSql(1) /\ \A i \in 1..Len(proc[1].questions) :
                       PairwiseDistinct(proc[1].questions[i].options)) =>
        /\ WrittenSql(1) # {}
        /\ \A statements \in WrittenSql(1) : ReadsBack(statements, proc[1].questions)

\* A question with three distinct options, two of them with single quotes
\* and correct, has been written in SQL format.
C11_Witness ==
    /\ SavedSql(1)
    /\ WrittenSql(1) # {}
    /\ proc[1].questions[1].options = << <<"i", Quote, "s">>, <<"a">>, <<Quote, Quote>> >>
    /\ proc[1].questions[1].correct_answers = <<2, 0>>

\* -------------------------------------------------------- domain coverage
\* The largest total_questions_target and the largest count of one domain
\* that are explored.
MaxTotalTarget == 200
MaxObserved == 75

\* z.number().min(50): the smallest total_questions_target accepted.
MinTotalTarget == 50

CertificationType == {"CV0-004", "SAA-C03"}

\* DOMAIN_WEIGHTS with the weights of CV0-004 summing to 110.
DomainWeightsOver ==
    [certType \in CertificationType |->
        IF certType = "CV0-004"
        THEN << [name |-> "Cloud Architecture and Design", weight |-> 23],
                [name |-> "Cloud Deployment", weight |-> 19],
                [name |-> "Cloud Security", weight |-> 19],
                [name |-> "Cloud Operations and Support", weight |-> 17],
                [name |-> "Troubleshooting", weight |-> 22],
                [name |-> "DevOps Fundamentals", weight |-> 10] >>
        ELSE << [name |-> "Design Secure Architectures", weight |-> 30],
                [name |-> "Design Resilient Architectures", weight |-> 26],
                [name |-> "Design High-Performing Architectures", weight |-> 24],
                [name |-> "Design Cost-Optimized Architectures", weight |-> 20] >>]

\* DOMAIN_WEIGHTS with the weight of Troubleshooting moved to DevOps
\* Fundamentals.
DomainWeightsWithZero ==
    [certType \in CertificationType |->
        IF certType = "CV0-004"
        THEN << [name |-> "Cloud Architecture and Design", weight |-> 23],
                [name |-> "Cloud Deployment", weight |-> 19],
                [name |-> "Cloud Security", weight |-> 19],
                [name |-> "Cloud Operations and Support", weight |-> 17],
                [name |-> "Troubleshooting", weight |-> 0],
                [name |-> "DevOps Fundamentals", weight |-> 22] >>
        ELSE << [name |-> "Design Secure Architectures", weight |-> 30],
                [name |-> "Design Resilient Architectures", weight |-> 26],
                [name |-> "Design High-Performing Architectures", weight |-> 24],
                [name |-> "Design Cost-Optimized Architectures", weight |-> 20] >>]

\* The domains of each certification with their weights in percent.
DOMAIN_WEIGHTS ==
    [certType \in CertificationType |->
        IF certType = "CV0-004"
        THEN << [name |-> "Cloud Architecture and Design", weight |-> 23],
                [name |-> "Cloud Deployment", weight |-> 19],
                [name |-> "Cloud Security", weight |-> 19],
                [name |-> "Cloud Operations and Support", weight |-> 17],
                [name |-> "Troubleshooting", weight |-> 12],
                [name |-> "DevOps Fundamentals", weight |-> 10] >>
        ELSE << [name |-> "Design Secure Architectures", weight |-> 30],
                [name |-> "Design Resilient Architectures", weight |-> 26],
                [name |-> "Design High-Performing Architectures", weight |-> 24],
                [name |-> "Design Cost-Optimized Architectures", weight |-> 20] >>]

\* Math.round of the quotient n / d, d >= 0: the nearest integer, a half
\* rounded up; the quotient by zero is NaN, Infinity or -Infinity and
\* Math.round leaves it as it is.  (For the weights and the targets explored
\* the double product (weight / 100) * targetTotal rounds as the exact
\* quotient does.)
MathRound(n, d) ==
    IF d = 0 THEN (IF n = 0 THEN "NaN" ELSE IF n > 0 THEN "Infinity" ELSE "-Infinity")
    ELSE (2 * n + d) \div (2 * d)

\* A percentage before rounding, kept as the exact quotient num / den.
Ratio(num, den) == [num |-> num, den |-> den]
\* r < k and r > k for a positive k; every comparison with NaN is false.
Below(r, k) == IF r.den = 0 THEN r.num < 0 ELSE r.num < k * r.den
Above(r, k) == IF r.den = 0 THEN r.num > 0 ELSE r.num > k * r.den

\* A lookup that takes the count of some name when the domain's own name
\* is missing.
CountOfAnyName(currentCounts, name) ==
    IF name \in DOMAIN currentCounts THEN currentCounts[name]
    ELSE IF DOMAIN currentCounts = {} THEN 0
    ELSE currentCounts[CHOOSE n \in DOMAIN currentCounts : TRUE]

\* currentCounts[domain.name] || 0
CountOf(currentCounts, name) ==
    IF name \in DOMAIN currentCounts THEN currentCounts[name] ELSE 0

\* The status taken from the percentage as it is reported.
StatusOfRounded(percentage) ==
    IF MathRound(percentage.num, percentage.den) < 80 THEN "under"
    ELSE IF MathRound(percentage.num, percentage.den) > 120 THEN "over"
    ELSE "on-target"

\* if (percentage < 80) ... else if (percentage > 120) ... else ...
StatusOf(percentage) ==
    IF Below(percentage, 80) THEN "under"
    ELSE IF Above(percentage, 120) THEN "over"
    ELSE "on-target"

\* The body of the loop of analyzeCoverage: the entry of one domain.
DomainCoverage(domain, targetTotal, currentCounts) ==
    LET currentCount == CountOf(currentCounts, domain.name)
        targetCount == MathRound(domain.weight * targetTotal, 100)
        percentage == Ratio(currentCount * 100, targetCount)
    IN [domain_name |-> domain.name,
        current_count |-> currentCount,
        target_count |-> targetCount,
        percentage |-> MathRound(percentage.num, percentage.den),
        status |-> StatusOf(percentage)]

RECURSIVE SumOf(_, _)
SumOf(entries, field) ==
    IF entries = <<>> THEN 0 ELSE Head(entries)[field] + SumOf(Tail(entries), field)

\* The line pushed for a domain that needs more questions.
GapLine(e) == [domain_name |-> e.domain_name,
               needed |-> e.target_count - e.current_count]

\* A gaps list with a line for every domain that has fewer questions than
\* its target.
GapsOfShortfalls(domainCoverages) ==
    LET short == SelectSeq(domainCoverages, LAMBDA e : e.current_count < e.target_count)
    IN [i \in 1..Len(short) |-> GapLine(short[i])]

\* gaps: `${domain.name}: Need ${needed} more questions (...)`, pushed in
\* the loop for every domain whose status is under.
Gaps(domainCoverages) ==
    LET under == SelectSeq(domainCoverages, LAMBDA e : e.status = "under")
    IN [i \in 1..Len(under) |-> GapLine(under[i])]

\* overrepresented: `${domain.name}: ${excess} questions over target (...)`,
\* pushed in the loop for every domain whose status is over.
Overrepresented(domainCoverages) ==
    LET over == SelectSeq(domainCoverages, LAMBDA e : e.status = "over")
    IN [i \in 1..Len(over) |-> [domain_name |-> over[i].domain_name,
                                excess |-> over[i].current_count - over[i].target_count]]

analyzeCoverage(certType, targetTotal, currentCounts) ==
    LET domains == DOMAIN_WEIGHTS[certType]
        domainCoverages ==
            [i \in 1..Len(domains) |-> DomainCoverage(domains[i], targetTotal, currentCounts)]
        totalCurrent == SumOf(domainCoverages, "current_count")
    IN [certification_type |-> certType,
        total_questions |-> totalCurrent,
        target_questions |-> targetTotal,
        domains |-> domainCoverages,
        overall_coverage_percentage |-> MathRound(totalCurrent * 100, targetTotal),
        gaps |-> Gaps(domainCoverages),
        overrepresented |-> Overrepresented(domainCoverages)]

\* The domain names a caller counts questions under: the names of the
\* profiles and the name "Security" of the built-in counts.
CountedNames ==
    UNION {{d.name : d \in Range(DOMAIN_WEIGHTS[c])} : c \in CertificationType}
    \cup {"Security"}

\* The locals of handleCoverageCheck once its arguments are validated.
CoverageCalled(certType, targetTotal, currentCounts) ==
    [pc |-> "analyze", tool |-> "cov", result |-> "none",
     args |-> [certification_type |-> certType,
               total_questions_target |-> targetTotal,
               current_question_counts |-> currentCounts],
     analysis |-> <<>>]

\* current_question_counts with the count of one domain and, for the names
\* in extra, seven questions each.
Counts(name, count, extra) ==
    [n \in {name} \cup extra |-> IF n = name THEN count ELSE 7]

\* The coverage tool is called with a certification, a target of at least
\* MinTotalTarget, the count of one domain (any number, negative ones
\* included: z.number()) and possibly a count under the name "Security";
\* the arguments pass validation.
CoverageStart(p) ==
    /\ p \in active
    /\ proc[p].pc = "idle"
    /\ \E certType \in CertificationType, targetTotal \in MinTotalTarget..MaxTotalTarget,
          name \in CountedNames, count \in (-1)..MaxObserved,
          extra \in {{}, {"Security"}} :
         Set(p, CoverageCalled(certType, targetTotal, Counts(name, count, extra)))
    /\ UNCHANGED <<now, ticks, files, writes, jobStatus, healthy, active>>

\* handleCoverageCheck: analyse the counts and answer with the report.
CoverageCheck(p) ==
    /\ proc[p].pc = "analyze"
    /\ Set(p, [proc[p] EXCEPT
                 !.pc = "done", !.result = "ok",
                 !.analysis = analyzeCoverage(proc[p].args.certification_type,
                                              proc[p].args.total_questions_target,
                                              proc[p].args.current_question_counts)])
    /\ UNCHANGED <<now, ticks, files, writes, jobStatus, healthy, active>>

InitCov ==
    /\ InitCommon
    /\ proc = [p \in Procs |-> Idle]
    /\ healthy = TRUE
    /\ active = {1}

NextCov ==
    \/ CoverageStart(1)
    \/ CoverageCheck(1)

SpecCov == InitCov /\ [][NextCov]_vars

\* -------------------------------------------------- claims C12, C13, C14
\* The entries of the report the coverage call p answered with.
Reported(p) ==
    IF proc[p].tool = "cov" /\ proc[p].pc = "done"
    THEN Range(proc[p].analysis.domains) ELSE {}

\* C12: in every entry of a coverage report the status is under iff the
\* reported percentage is below 80, over iff it is above 120, and on-target
\* otherwise.
C12_StatusMatchesReportedPercentage ==
    \A e \in Reported(1) :
        /\ e.status = "under" <=> e.percentage < 80
        /\ e.status = "over" <=> e.percentage > 120
        /\ e.status = "on-target" <=> (e.percentage >= 80 /\ e.percentage <= 120)

\* C13: an entry with observed count c and target count t > 0 is under iff
\* 100*c < 80*t, over iff 100*c > 120*t, and on-target otherwise.
C13_StatusMatchesExactRatio ==
    \A e \in Reported(1) :
        e.target_count > 0 =>
            /\ e.status = "under" <=> 100 * e.current_count < 80 * e.target_count
            /\ e.status = "over" <=> 100 * e.current_count > 120 * e.target_count
            /\ e.status = "on-target" <=>
                   /\ 100 * e.current_count >= 80 * e.target_count
                   /\ 100 * e.current_count <= 120 * e.target_count

\* A report with an entry at exactly 80% of a target of ten, on-target.
C13_Witness ==
    \E e \in Reported(1) :
        e.target_count = 10 /\ e.current_count = 8 /\ e.status = "on-target"

\* C14: the target counts of a report add up to the total target, give or
\* take the number of domains of the profile.
C14_TargetsSumToTotal ==
    (proc[1].tool = "cov" /\ proc[1].pc = "done") =>
        LET a == proc[1].analysis
            sum == SumOf(a.domains, "target_count")
        IN /\ sum - a.target_questions <= Len(a.domains)
           /\ a.target_questions - sum <= Len(a.domains)

\* A report whose target counts, each rounded up from a half, add up to
\* more than the total target.
C14_Witness ==
    /\ proc[1].tool = "cov" /\ proc[1].pc = "done"
    /\ proc[1].analysis.certification_type = "CV0-004"
    /\ SumOf(proc[1].analysis.domains, "target_count") = proc[1].analysis.target_questions + 2

\* ------------------------------------------------------ claims C15, C16
\* C15: a submission answered with a non-empty item list, with or without
\* a batch id, makes the generator return exactly those items, in order,
\* without any status, results, alternative-endpoint or per-item request.
C15_SubmitShortCircuits ==
    \A p \in Procs :
        (proc[p].tool = "gen" /\ Len(proc[p].submitData.questions) > 0) =>
            /\ proc[p].pc \in {"save", "done"}
            /\ proc[p].result # "error"
            /\ Ids(proc[p].questions) = Ids(proc[p].submitData.questions)
            /\ proc[p].reqs = [NoReqs EXCEPT !.submit = 1]

\* A call has saved the three items of a submission response that also
\* named a batch id.
C15_Witness ==
    /\ proc[1].tool = "gen" /\ proc[1].pc = "done" /\ proc[1].result = "ok"
    /\ proc[1].submitData.batch_id = "batch1"
    /\ Len(proc[1].submitData.questions) = 3
    /\ Len(proc[1].questions) = 3

\* C16: a submission response with neither a batch id nor items makes the
\* generator fail with the invalid-response error; no item list is
\* returned and no file is written.
C16_NeitherIsMalformed ==
    \A p \in Procs :
        (/\ proc[p].tool = "gen"
         /\ proc[p].submitData.parsed
         /\ proc[p].submitData.batch_id = ""
         /\ proc[p].submitData.questions = <<>>) =>
            /\ proc[p].pc = "done"
            /\ proc[p].result = "error"
            /\ proc[p].error.kind = "MalformedResponse"
            /\ files = {}

\* ------------------------------------------------------------ claim C17
\* C17: once the results request of the retrieval step has been answered
\* with a non-success HTTP status, or with a success-flagged body that
\* carries an error, the call has failed: it returns no items, writes no
\* file and asks for nothing more.
C17_LateFailureIsFinal ==
    \A p \in Procs :
        proc[p].resultsFailed => (proc[p].pc = "done" /\ proc[p].result = "error")

\* ------------------------------------------------------------ claim C18
\* C18: when the generator's fallback chain, entered on a failure of the
\* status endpoint, has come to its last strategy, the per-item requests,
\* and ends without items, the error the caller gets is that
\* status-endpoint failure and not the error of the last fallback attempt.
C18_OriginalErrorSurfaced ==
    \A p \in Procs :
        (/\ proc[p].tool = "gen"
         /\ GenFallbackTrigger(proc[p].pollError)
         /\ proc[p].reqs.perItem > 0
         /\ proc[p].pc = "done" /\ proc[p].result = "error") =>
            proc[p].error = proc[p].pollError

\* ------------------------------------------------------------ claim C19
\* The status endpoint answered 404 to every status request of call p, and
\* the call failed without having asked for the results.
FailedOn404(p) ==
    /\ proc[p].reqs.status > 0 /\ proc[p].statusAll404
    /\ proc[p].pc = "done" /\ proc[p].result = "error"
    /\ proc[p].reqs.results = 0

\* C19 as stated: in neither tool does a call whose status requests were
\* all answered 404 fail on the 404; it goes on to ask for the results.
C19_RecoversFrom404 == \A p \in Procs : ~FailedOn404(p)

\* C19, amended: the generator never fails on a status endpoint that answers
\* 404, it goes on to the fallback chain; the status checker does fail, with
\* its batch-not-found error, unless that message happens to contain "500".
C19_GeneratorRecoversFrom404 ==
    \A p \in Procs :
        FailedOn404(p) =>
            /\ proc[p].tool = "chk"
            /\ proc[p].error = ErrNotFound(proc[p].args.batch_id)
            /\ ~Includes(proc[p].error, "500")

\* A generator call has saved items it got through the fallback chain
\* although every one of its status requests was answered 404.
C19_Witness ==
    /\ proc[1].tool = "gen"
    /\ proc[1].reqs.status > 1 /\ proc[1].statusAll404
    /\ proc[1].reqs.results > 0
    /\ proc[1].pc = "done" /\ proc[1].result = "ok"

\* ------------------------------------------------------------ claim C20
\* Two status-checker calls running concurrently about two different jobs,
\* which the backend is processing and answers every request about
\* properly.
StartJob(p) ==
    /\ p \in active
    /\ proc[p].pc = "idle"
    /\ \E b \in JobIds :
         /\ \A q \in Procs \ {p} : proc[q].batchId # b
         /\ Set(p, Called("chk", <<5, 10>>, "json", MinCount, b))
    /\ UNCHANGED <<now, ticks, files, writes, jobStatus, healthy, active>>

InitJobs ==
    /\ now = 0
    /\ ticks = 0
    /\ files = {}
    /\ writes = <<>>
    /\ jobStatus = [b \in JobIds |-> "processing"]
    /\ proc = [p \in Procs |-> Idle]
    /\ healthy = TRUE
    /\ active = Procs

NextJobs ==
    \/ Tick
    \/ \E p \in Procs :
         \/ StartJob(p)
         \/ PollBatchStatus(p)
         \/ StatusCheck(p)
         \/ CheckResults(p)
         \/ Save(p)

SpecJobs == InitJobs /\ [][NextJobs]_vars

\* C20: two calls about different jobs never write the same file: the file
\* names of two finished calls with different batch ids are different.
C20_DifferentJobsDifferentFiles ==
    \A p, q \in Procs :
        (/\ proc[p].batchId # proc[q].batchId
         /\ proc[p].pc = "done" /\ proc[p].result = "ok"
         /\ proc[q].pc = "done" /\ proc[q].result = "ok") =>
            /\ Len(writes) = 2
            /\ writes[1] # writes[2]

\* ------------------------------------------------------------ claim C21
\* The counts the coverage call p was given hold a negative number.
NegativeCount(p) ==
    \E n \in DOMAIN proc[p].args.current_question_counts :
        proc[p].args.current_question_counts[n] < 0

\* C21: a coverage request whose counts hold a negative value ends in an
\* error and produces no report.
C21_NegativeCountsRejected ==
    (proc[1].tool = "cov" /\ proc[1].pc = "done" /\ NegativeCount(1)) =>
        (proc[1].result = "error" /\ proc[1].analysis = <<>>)

\* ------------------------------------------------------------ claim C26
\* analyzeCoverage on its own, applied to the total targets below the
\* smallest one the schema of the tool lets through, zero included.
InitAnalyze ==
    /\ InitCommon
    /\ healthy = TRUE
    /\ active = {1}
    /\ \E certType \in CertificationType, targetTotal \in 0..(MinTotalTarget - 1),
          name \in CountedNames, count \in 0..2 :
         proc = [p \in Procs |->
                    IF p = 1 THEN CoverageCalled(certType, targetTotal, Counts(name, count, {}))
                    ELSE Idle]

NextAnalyze == CoverageCheck(1)

SpecAnalyze == InitAnalyze /\ [][NextAnalyze]_vars

NotANumber == {"NaN", "Infinity", "-Infinity"}

Answer(p) == proc[p].analysis

CoverageAnswered(p) == proc[p].tool = "cov" /\ proc[p].pc = "done"

\* The place of the domain called name in the profile order of report a.
Place(a, name) == CHOOSE k \in 1..Len(a.domains) : a.domains[k].domain_name = name

\* The lines of a list name exactly the entries of report a that have the
\* status st, in profile order.
ListsStatus(a, list, st) ==
    /\ \A k \in 1..Len(a.domains) :
         a.domains[k].status = st <=>
             \E i \in 1..Len(list) : list[i].domain_name = a.domains[k].domain_name
    /\ \A i, j \in 1..Len(list) :
         i < j => Place(a, list[i].domain_name) < Place(a, list[j].domain_name)

C29_TargetCountPositive ==
    \A e \in Reported(1) : e.target_count >= 1

\* The smallest target count there is: a tenth of the smallest total.
C29_Witness ==
    \E e \in Reported(1) :
        /\ e.target_count = 5
        /\ proc[1].args.total_questions_target = MinTotalTarget

\* ------------------------------------------------------------ claim C30
\* The names of the domains of a certification.
ProfileNames(certType) == {d.name : d \in Range(DOMAIN_WEIGHTS[certType])}

\* C30: counts under names that are not domains of the certification change
\* nothing in the report: it is the report of the counts without them; the
\* total is the sum over the domains of the certification, and a domain the
\* counts do not name is counted as 0.
C30_ForeignCountsIgnored ==
    CoverageAnswered(1) =>
        LET args == proc[1].args
            counts == args.current_question_counts
            own == [n \in DOMAIN counts \cap ProfileNames(args.certification_type) |-> counts[n]]
            a == Answer(1)
        IN /\ a = analyzeCoverage(args.certification_type, args.total_questions_target, own)
           /\ a.total_questions = SumOf(a.domains, "current_count")
           /\ \A k \in 1..Len(a.domains) :
                a.domains[k].current_count =
                    IF a.domains[k].domain_name \in DOMAIN counts
                    THEN counts[a.domains[k].domain_name] ELSE 0

\* A report for counts that name one domain of the certification, with
\* three questions, and the foreign name "Security".
C30_Witness ==
    /\ CoverageAnswered(1)
    /\ "Security" \in DOMAIN proc[1].args.current_question_counts
    /\ proc[1].args.certification_type = "SAA-C03"
    /\ Answer(1).total_questions = 3

\* ------------------------------------------------------------ claim C22
\* The strategies of the recovery chain that have a next one.
ChainBeforeLast == {"fbResults", "alt", "resubmit"}

\* C22: a step of the recovery chain either ends the chain with a non-empty
\* item list or goes on in the fixed order: results endpoint, the guessed
\* paths in list order, resubmission (only after a pending submission),
\* per-item generation; no strategy before the last ends the call in error.
C22_ChainHandsOver ==
    [][\A p \in Procs :
         LET s == proc[p]
             t == proc'[p]
         IN (s.tool = "gen" /\ s.pc \in ChainBeforeLast /\ t # s) =>
              /\ t.result # "error"
              /\ t.pc = "save" => Len(t.questions) > 0
              /\ s.pc = "fbResults" => t.pc \in {"save", "alt"}
              /\ s.pc = "alt" =>
                   \/ t.pc = "save"
                   \/ t.pc = "alt" /\ t.altIdx = s.altIdx + 1
                   \/ /\ s.altIdx = Len(GenAltPaths)
                      /\ t.pc = IF s.status = "pending" THEN "resubmit" ELSE "perItem"
              /\ s.pc = "resubmit" =>
                   \/ t.pc = "save"
                   \/ t.pc = "resubmit" /\ t.retry = s.retry + 1
                   \/ t.pc = "perItem" /\ s.retry = maxRetries
    ]_vars

\* ------------------------------------------------------------ claim C23
\* C23: a call whose polling ended because the job reached a failure status
\* or because the wait budget ran out has failed with that error and has
\* tried no strategy of the recovery chain.
C23_ChainOnlyWhenStatusUnusable ==
    \A p \in Procs :
        proc[p].pollError.kind \in {"JobFailed", "Timeout"} =>
            /\ proc[p].pc = "done"
            /\ proc[p].error = proc[p].pollError
            /\ proc[p].reqs.alt = 0
            /\ proc[p].reqs.resubmit = 0
            /\ proc[p].reqs.perItem = 0

\* ------------------------------------------------------------ claim C24
\* The errors that report the job as failed, expired or not found.
JobVerdicts == {"JobFailed", "Expired", "NotFound"}

\* C24: a results request made while the last status the call observed was
\* non-terminal does not end the call with an error that reports the job as
\* failed or as not found.
C24_PendingRetrievalErrorNotFinal ==
    [][\A p \in Procs :
         LET s == proc[p]
             t == proc'[p]
         IN (/\ s.pc \in {"results", "chkResults"}
             /\ s.lastSeen \in NonTerminal
             /\ t.reqs.results = s.reqs.results + 1
             /\ t.result = "error")
                => t.error.kind \notin JobVerdicts
    ]_vars

\* ------------------------------------------------------------ claim C25
\* The checker holding the body of a 200 answer of the results endpoint.
BodyRead(batch_id, processingStatus, resultsData) ==
    [pc |-> "chkBody", tool |-> "chk", result |-> "none", error |-> NoErr,
     args |-> [batch_id |-> batch_id], processingStatus |-> processingStatus,
     resultsData |-> resultsData, questions |-> <<>>]

\* The handling of the results body on its own, for every body built from
\* the texts and every status the checker can hold when it asks for results.
InitBody ==
    /\ InitCommon
    /\ healthy = FALSE
    /\ active = {1}
    /\ \E b \in BatchIds, processingStatus \in {"", "ended", "validating"},
          success \in {"true", "false", "missing"},
          error \in ErrorTexts, error_message \in ErrorTexts,
          status \in {"", "failed", "Expired"} :
         proc = [p \in Procs |->
                    IF p = 1
                    THEN BodyRead(b, processingStatus,
                                  ResultsData(success, error, error_message, status, JobItems(b)))
                    ELSE Idle]

ReadBody(p) ==
    /\ proc[p].pc = "chkBody"
    /\ Set(p, ChkResultsBody(proc[p], proc[p].resultsData))
    /\ UNCHANGED <<now, ticks, files, writes, jobStatus, healthy, active>>

NextBody == ReadBody(1)

SpecBody == InitBody /\ [][NextBody]_vars

\* The error text of a body: its error, or else its error_message.
ErrorText(d) == IF d.error # "" THEN d.error ELSE d.error_message

\* The body or the status known to the checker says the batch has expired.
SaysExpired(p) ==
    LET d == proc[p].resultsData IN
    \/ "expired" \in LowerHas(ErrorText(d))
    \/ "empty status received from anthropic api" \in LowerHas(ErrorText(d))
    \/ ToLowerCase(d.status) = "expired"
    \/ proc[p].processingStatus = "expired"

\* The error text says the batch id is not known.
SaysInvalid(p) ==
    LowerHas(ErrorText(proc[p].resultsData)) \cap {"not found", "invalid", "does not exist"} # {}

\* C25: for a results body that indicates failure, the error names the batch
\* id and has the expired wording when the body or a known status says
\* expired or empty status, the invalid-batch wording when it only says not
\* found, invalid or does not exist, and the generic wording only when it
\* says none of these.
C25_FailureMessageRewritten ==
    (proc[1].pc = "done" /\ proc[1].result = "error") =>
        LET e == proc[1].error
            b == proc[1].args.batch_id
        IN /\ SaysExpired(1) => (e.kind = "Expired" /\ Includes(e, b))
           /\ (~SaysExpired(1) /\ SaysInvalid(1)) => (e.kind = "InvalidBatch" /\ Includes(e, b))
           /\ e.kind = "JobFailed" => (~SaysExpired(1) /\ ~SaysInvalid(1))

\* ------------------------------------------------------------ claim C28
\* The steps of the two handlers that ask the backend for the items.
RetrievalSteps == {"submit", "directResults", "results", "fbResults", "alt",
                   "resubmit", "perItem", "chkAlt", "chkResults"}

Requests(s) == s.reqs.submit + s.reqs.status + s.reqs.results + s.reqs.alt
               + s.reqs.resubmit + s.reqs.perItem

\* C28: the output directory changes only in the save step of a call to
\* which a retrieval step has handed a list of items, at least one; a call
\* reaches its save step only from a retrieval step that was answered and
\* threw no error, and a call that ended in an error does nothing more.
C28_WritesOnlyItems ==
    [][/\ (files' # files \/ writes' # writes) =>
            \E p \in Procs :
                /\ proc[p].pc = "save" /\ proc[p].error = NoErr
                /\ Len(proc[p].questions) > 0
                /\ proc'[p].result = "ok"
       /\ \A p \in Procs :
            /\ (proc'[p].pc = "save" /\ proc[p].pc # "save") =>
                   /\ proc[p].pc \in RetrievalSteps
                   /\ Requests(proc'[p]) > Requests(proc[p])
                   /\ proc'[p].error = NoErr
            /\ proc[p].result = "error" => proc'[p] = proc[p]
    ]_vars

====
